---- MODULE Spec2Model ----
(***************************************************************************)
(* Model of the variable-rate audio player: FloatArrayWrapper (chunked     *)
(* sample buffer), AudioController (phase-accumulator playback engine)     *)
(* and AccelerationToRate (motion to rate controller).                     *)
(*                                                                         *)
(* Numbers.  The program computes in IEEE doubles.  Every real quantity    *)
(* (phase, rate, volume, the controller's rates and settings) is modelled  *)
(* as an integer count of 1/Scale units, Scale = 2^FracBits.  Additions    *)
(* and comparisons are exact on that grid; a multiplication is rounded to  *)
(* the nearest grid value, ties to even, as a double product is rounded to *)
(* the nearest double.  Sample values are whole numbers.                   *)
(***************************************************************************)
EXTENDS Integers, Sequences, FiniteSets, TLC

(* ------------------------------ bounds --------------------------------- *)
\* The chunk length (4096 in the program), scaled down.
innerArraySize == 2
\* The buffer under test never holds more than this many logical samples.
MaxCount == 5
\* Sample values pushed are 0..MaxSample.
MaxSample == 1
\* Reads are probed at indices 0..MaxCount+ProbeBeyond.
ProbeBeyond == 3

\* Fractional bits of the fixed-point grid that stands for the doubles.
FracBits == 3
\* Length of the increasing-sequence track (1000 in the playback test).
TrackLen == 4
\* Largest frame size the audio output asks for (getPreferredFrameSize).
MaxPreferredFrameSize == 2

\* Length of the scratch frame a caller hands to push (audioSource.maxFrameSize):
\* long enough for one push to cross two chunk boundaries.
MaxFrameSize == innerArraySize + 2

\* One unit of the grid is 1/Scale.
Scale == 2 ^ FracBits

(* ----------------------------- variables ------------------------------- *)
VARIABLES
  wrapper,      \* the FloatArrayWrapper under test: [dataList, currentElementCount, allocs]
  pushed,       \* history: the samples pushed since construction or the last clear()
  shifted,      \* history: shift() was called since construction or the last clear()
  cleared,      \* history: clear() was called since construction
  ret,          \* return value of the last call: <<>> is undefined, <<c>> is chunk c
  before,       \* history: the wrapper under test as it was before the last call on it
  lastOp,       \* name of the last operation executed
  \* AudioController
  inputTrack,   \* the track assets configured, by name
  audioArrays,  \* one FloatArrayWrapper per loaded track
  audioData,    \* <<>> (null/undefined) or <<w>>: the buffer on deck
  audioSource,  \* <<>> (null) or <<t>>: the track asset given to setTrack
  resultFrame,  \* <<>> (null) or <<f>>: the output scratch frame
  phase,        \* read cursor, in grid units
  rate,         \* playback rate, in grid units
  volume,       \* gain, in grid units
  trackOnDeck,
  playBound,    \* onAwake has bound play() to the late-update event
  enqueued,     \* <<>>: the last audio tick enqueued nothing; <<n>>: it enqueued resultFrame with shape n
  phaseBefore,  \* history: phase when the last audio tick began
  ramp,         \* history: every audio tick since setTrack ran at rate 1 and volume 1
  synth,        \* history: samples synthesized since setTrack while ramp (capped)
  zeroRun,      \* history: consecutive synthesizing audio ticks with rate 0 (capped at 2)
  \* AccelerationToRate
  hasCalculator,   \* the accelerationCalculator input is set
  hasController,   \* the audioController input is set
  baseRate, useVelocity, sensitivity, minRate, maxRate, smoothing, motionThreshold,
  currentRate,
  targetRate,
  rateAwake,       \* AccelerationToRate.onAwake has run
  updateBound,     \* onAwake has bound updateRate() to the update event
  enabled,         \* the component's enabled flag
  motionMagnitude, \* the magnitude the last updateRate() read
  raised           \* the last call ended in a TypeError

bufVars == <<wrapper, pushed, shifted, cleared, ret, before>>
engVars == <<inputTrack, audioArrays, audioData, audioSource, resultFrame, phase,
             volume, trackOnDeck, playBound, enqueued, phaseBefore, ramp, synth, zeroRun>>
cfgVars == <<hasCalculator, hasController, baseRate, useVelocity, sensitivity, minRate,
             maxRate, smoothing, motionThreshold>>
ctlVars == <<cfgVars, currentRate, targetRate, rateAwake, updateBound, enabled,
             motionMagnitude, raised>>
vars == <<wrapper, pushed, shifted, cleared, ret, before, lastOp,
          inputTrack, audioArrays, audioData, audioSource, resultFrame, phase, rate,
          volume, trackOnDeck, playBound, enqueued, phaseBefore, ramp, synth, zeroRun,
          hasCalculator, hasController, baseRate, useVelocity, sensitivity, minRate,
          maxRate, smoothing, motionThreshold, currentRate, targetRate, rateAwake,
          updateBound, enabled, motionMagnitude, raised>>

(* --------------------------- small helpers ----------------------------- *)
Max(a, b) == IF a >= b THEN a ELSE b
Min(a, b) == IF a <= b THEN a ELSE b

\* Math.floor(a / b) for b > 0.
Floor(a, b) == a \div b
\* Math.ceil(a / b) for b > 0 (a may be negative).
Ceil(a, b) == -((-a) \div b)

(* ========================= FloatArrayWrapper =========================== *)
\* new Float32Array(innerArraySize): zero-filled.  id is the object's identity:
\* the number of arrays this wrapper had allocated before it.
NewInnerArray(id) == [id |-> id, data |-> [k \in 1..innerArraySize |-> 0]]

\* A freshly constructed wrapper.
NewWrapper == [dataList |-> <<>>, currentElementCount |-> 0, allocs |-> 0]

\* Variant that allocates at most one array per call.
createOneInnerArray(w, arraysCount) ==
  IF arraysCount <= 0 THEN w
  ELSE [w EXCEPT !.dataList = Append(@, NewInnerArray(w.allocs)), !.allocs = @ + 1]

RECURSIVE createAdditionalInnerArrays(_, _)
createAdditionalInnerArrays(w, arraysCount) ==
  IF arraysCount <= 0 THEN w
  ELSE createAdditionalInnerArrays(
         [w EXCEPT !.dataList = Append(@, NewInnerArray(w.allocs)),
                   !.allocs = @ + 1],
         arraysCount - 1)

\* Variant without the exact-multiple case.
AvailableNoBoundaryFix(w) ==
  innerArraySize - (w.currentElementCount % innerArraySize)

\* Lines 19-23 of push: the unused tail of the last chunk, 0 when the count is
\* an exact multiple of the chunk length.
AvailableElementsInCurrentArray(w) ==
  IF w.currentElementCount % innerArraySize = 0 THEN 0
  ELSE innerArraySize - (w.currentElementCount % innerArraySize)

\* Variant of the copy loop that writes from logical position 0 instead of from
\* the current count.
RECURSIVE CopyLoopFromStart(_, _, _, _)
CopyLoopFromStart(w, floatArray, arrayRealSize, currentCopiedElementIndex) ==
  IF currentCopiedElementIndex >= arrayRealSize THEN w
  ELSE
    LET dataArrayIndex == Floor(currentCopiedElementIndex, innerArraySize)
        innerArrayIndex == currentCopiedElementIndex % innerArraySize
        w1 == IF dataArrayIndex + 1 \in DOMAIN w.dataList
              THEN [w EXCEPT !.dataList[dataArrayIndex + 1].data[innerArrayIndex + 1] =
                                 floatArray[currentCopiedElementIndex + 1]]
              ELSE w
        w2 == [w1 EXCEPT !.currentElementCount = @ + 1]
    IN CopyLoopFromStart(w2, floatArray, arrayRealSize, currentCopiedElementIndex + 1)

\* The copy loop of push: one iteration per sample, the write guarded by the
\* chunk's existence, the count advanced in any case.
RECURSIVE CopyLoop(_, _, _, _)
CopyLoop(w, floatArray, arrayRealSize, currentCopiedElementIndex) ==
  IF currentCopiedElementIndex >= arrayRealSize THEN w
  ELSE
    LET dataArrayIndex == Floor(w.currentElementCount, innerArraySize)
        innerArrayIndex == w.currentElementCount % innerArraySize
        w1 == IF dataArrayIndex + 1 \in DOMAIN w.dataList
              THEN [w EXCEPT !.dataList[dataArrayIndex + 1].data[innerArrayIndex + 1] =
                                 floatArray[currentCopiedElementIndex + 1]]
              ELSE w
        w2 == [w1 EXCEPT !.currentElementCount = @ + 1]
    IN CopyLoop(w2, floatArray, arrayRealSize, currentCopiedElementIndex + 1)

push(w, floatArray, arrayRealSize) ==
  LET additionalElementsCount == arrayRealSize - AvailableElementsInCurrentArray(w)
      arraysToAddCount == Ceil(additionalElementsCount, innerArraySize)
  IN CopyLoop(createAdditionalInnerArrays(w, arraysToAddCount), floatArray, arrayRealSize, 0)

\* Variant removing the newest chunk (Array.prototype.pop).
shiftFromBack(w) ==
  IF w.dataList = <<>> THEN [w |-> w, ret |-> <<>>]
  ELSE [w |-> [w EXCEPT !.dataList = SubSeq(@, 1, Len(@) - 1)],
        ret |-> <<w.dataList[Len(w.dataList)]>>]

\* Array.prototype.shift: the wrapper afterwards, and what is returned.
shift(w) ==
  IF w.dataList = <<>> THEN [w |-> w, ret |-> <<>>]
  ELSE [w |-> [w EXCEPT !.dataList = Tail(@)], ret |-> <<Head(w.dataList)>>]

\* Variant that reads the nearest existing chunk when the owning one is missing.
getElementClampChunk(w, idx) ==
  LET arrayIndex == Floor(idx, innerArraySize)
      elementInArrayIdx == idx % innerArraySize
  IN IF w.dataList = <<>> THEN 0
     ELSE w.dataList[Min(Max(arrayIndex, 0) + 1, Len(w.dataList))].data[elementInArrayIdx + 1]

getElement(w, idx) ==
  LET arrayIndex == Floor(idx, innerArraySize)
      elementInArrayIdx == idx % innerArraySize
  IN IF arrayIndex + 1 \in DOMAIN w.dataList
     THEN w.dataList[arrayIndex + 1].data[elementInArrayIdx + 1]
     ELSE 0

getSize(w) == w.currentElementCount

\* Variant that resets the count only.
clearKeepsChunks(w) == [w EXCEPT !.currentElementCount = 0]

clear(w) == [w EXCEPT !.currentElementCount = 0, !.dataList = <<>>, !.allocs = 0]

\* Float32Array.BYTES_PER_ELEMENT
BYTES_PER_ELEMENT == 4

\* Variant without the test for a first chunk.
getSizeInBytesNoGuard(w) == w.currentElementCount * BYTES_PER_ELEMENT

getSizeInBytes(w) ==
  IF w.dataList # <<>> THEN w.currentElementCount * BYTES_PER_ELEMENT ELSE 0

(* ------------------- the buffer driven by its callers ------------------ *)
Samples == 0..MaxSample

\* The scratch frame handed to push: fresh samples s followed by whatever the
\* frame held before (stale values, never to be copied).
Stale == MaxSample
AudioFrame(s) == s \o [k \in 1..(MaxFrameSize - Len(s)) |-> Stale]

\* The wrapper under test as constructed.
BufferNew ==
  /\ wrapper = NewWrapper
  /\ pushed = <<>>
  /\ shifted = FALSE
  /\ cleared = FALSE
  /\ ret = <<>>
  /\ before = NewWrapper

\* The AudioController's fields as declared, before onAwake.
EngineNew ==
  /\ audioArrays = <<>>
  /\ audioData = <<>>
  /\ audioSource = <<>>
  /\ resultFrame = <<>>
  /\ phase = 0
  /\ trackOnDeck = FALSE
  /\ playBound = FALSE
  /\ enqueued = <<>>
  /\ phaseBefore = 0
  /\ ramp = FALSE
  /\ synth = 0
  /\ zeroRun = 0

\* The AccelerationToRate fields as declared, with the default settings.
ControllerNew ==
  /\ currentRate = Scale
  /\ targetRate = Scale
  /\ rateAwake = FALSE
  /\ updateBound = FALSE
  /\ enabled = TRUE
  /\ motionMagnitude = 0
  /\ raised = FALSE

ControllerDefaults ==
  /\ ControllerNew
  /\ hasCalculator = TRUE
  /\ hasController = TRUE
  /\ baseRate = Scale
  /\ useVelocity = TRUE
  /\ sensitivity = 2 * Scale
  /\ minRate = Scale \div 4
  /\ maxRate = 3 * Scale
  /\ smoothing = (3 * Scale) \div 4
  /\ motionThreshold = Scale \div 8

InitBuffer ==
  /\ BufferNew
  /\ EngineNew
  /\ ControllerDefaults
  /\ inputTrack = <<>>
  /\ rate = Scale
  /\ volume = Scale
  /\ lastOp = "new"

PushCall ==
  \E arrayRealSize \in 0..MaxFrameSize :
    \E s \in [1..arrayRealSize -> Samples] :
      /\ wrapper.currentElementCount + arrayRealSize <= MaxCount
      /\ wrapper' = push(wrapper, AudioFrame(s), arrayRealSize)
      /\ pushed' = pushed \o s
      /\ ret' = <<>>
      /\ before' = wrapper
      /\ lastOp' = "push"
      /\ UNCHANGED <<shifted, cleared, engVars, rate, ctlVars>>

ShiftCall ==
  /\ wrapper' = shift(wrapper).w
  /\ ret' = shift(wrapper).ret
  /\ shifted' = TRUE
  /\ before' = wrapper
  /\ lastOp' = "shift"
  /\ UNCHANGED <<pushed, cleared, engVars, rate, ctlVars>>

ClearCall ==
  /\ wrapper' = clear(wrapper)
  /\ pushed' = <<>>
  /\ shifted' = FALSE
  /\ cleared' = TRUE
  /\ ret' = <<>>
  /\ before' = wrapper
  /\ lastOp' = "clear"
  /\ UNCHANGED <<engVars, rate, ctlVars>>

NextBuffer == PushCall \/ ShiftCall \/ ClearCall

SpecBuffer == InitBuffer /\ [][NextBuffer]_vars

(* =========================== AudioController =========================== *)
\* Math.round of a grid value: the nearest whole number, halves upwards.
MathRound(x) == Floor(2 * x + Scale, 2 * Scale)

\* getFloatArrayWithIncreasingSequence(arrSize)
getFloatArrayWithIncreasingSequence(arrSize) == [k \in 1..arrSize |-> k - 1]

\* The track assets of the project and the samples each decodes to.
TrackAssets == {"A", "B", "E"}
TrackSamples(t) ==
  CASE t = "A" -> getFloatArrayWithIncreasingSequence(TrackLen)
    [] t = "B" -> <<2, 1, 1>>
    [] OTHER   -> <<>>

\* The configurations of inputTrack explored.
InputTrackSettings == {<<>>, <<"A">>, <<"E">>, <<"B", "A">>}
\* Settings of the rate and volume sliders explored (ranges 0..3 and 0..2).
RateSettings == {0, Scale \div 2, Scale, 2 * Scale}
VolumeSettings == {Scale \div 2, Scale}
\* Frame sizes the audio output asks for.
PreferredFrameSizes == 0..MaxPreferredFrameSize

\* The pull loop of loadTracks for one track: the source fills the scratch frame
\* with up to maxFrameSize samples per call until it returns a count of 0.
RECURSIVE PullLoop(_, _)
PullLoop(audioDataW, remaining) ==
  IF remaining = <<>> THEN audioDataW
  ELSE LET x == Min(MaxFrameSize, Len(remaining))
       IN PullLoop(push(audioDataW, AudioFrame(SubSeq(remaining, 1, x)), x),
                   SubSeq(remaining, x + 1, Len(remaining)))

loadTracks(tracks) == [i \in 1..Len(tracks) |-> PullLoop(NewWrapper, TrackSamples(tracks[i]))]

\* new Float32Array(maxFrameSize)
NewFrame == [k \in 1..MaxFrameSize |-> 0]

\* Variant that binds the buffer loaded last.
setTrackBindsLast(arrays, audioTrack) ==
  [phase |-> 0,
   audioData |-> IF arrays = <<>> THEN <<>> ELSE <<arrays[Len(arrays)]>>,
   audioSource |-> <<audioTrack>>,
   resultFrame |-> <<[k \in 1..MaxFrameSize |-> 0]>>,
   trackOnDeck |-> TRUE]

\* The fields setTrack assigns, given the arrays loaded.
setTrack(arrays, audioTrack) ==
  [phase |-> 0,
   audioData |-> IF arrays = <<>> THEN <<>> ELSE <<arrays[1]>>,
   audioSource |-> <<audioTrack>>,
   resultFrame |-> <<NewFrame>>,
   trackOnDeck |-> TRUE]

\* Variant of the loop body that reads the sample before the phase advances.
ReadThenAdvance(w, st, i, r, v) ==
  [phase |-> st.phase + r,
   frame |-> IF i + 1 \in DOMAIN st.frame
             THEN [st.frame EXCEPT ![i + 1] = getElement(w, MathRound(st.phase)) * v]
             ELSE st.frame]

\* Variant of the loop body that wraps the phase as soon as it passes the end.
LoopBodyWraps(w, st, i, r, v) ==
  LET advanced == st.phase + r
      ph == IF advanced >= getSize(w) * Scale THEN 0 ELSE advanced
  IN [phase |-> ph,
      frame |-> IF i + 1 \in DOMAIN st.frame
                THEN [st.frame EXCEPT ![i + 1] = getElement(w, MathRound(ph)) * v]
                ELSE st.frame]

\* One iteration of play's loop: the phase advances, then the sample under the
\* rounded phase is read, scaled by the volume and stored in the frame (a store
\* past the frame's length is dropped; the values stored are exact in float32).
LoopBody(w, st, i, r, v) ==
  LET ph == st.phase + r
  IN [phase |-> ph,
      frame |-> IF i + 1 \in DOMAIN st.frame
                THEN [st.frame EXCEPT ![i + 1] = getElement(w, MathRound(ph)) * v]
                ELSE st.frame]

\* Variant of the loop that tests its condition after the body (do-while).
RECURSIVE PlayLoopAtLeastOnce(_, _, _, _, _, _)
PlayLoopAtLeastOnce(w, st, i, size, r, v) ==
  LET next == LoopBody(w, st, i, r, v)
  IN IF i + 1 >= size THEN next
     ELSE PlayLoopAtLeastOnce(w, next, i + 1, size, r, v)

\* Variant of the loop that runs no iteration.
PlayLoopSkips(w, st, i, size, r, v) == st

\* The for loop of play: size iterations of the body.
RECURSIVE PlayLoop(_, _, _, _, _, _)
PlayLoop(w, st, i, size, r, v) ==
  IF i >= size THEN st
  ELSE PlayLoop(w, LoopBody(w, st, i, r, v), i + 1, size, r, v)

\* Variant of the loop check with a strict comparison.
LoopsBackPastEnd(w, ph, r) == ph > getSize(w) * Scale \/ r = 0

\* Variant of the loop check without the rate test.
LoopsBackOnlyAtEnd(w, ph, r) == ph >= getSize(w) * Scale

\* "Handle looping": the check made once, after the loop.
LoopsBack(w, ph, r) == ph >= getSize(w) * Scale \/ r = 0

\* The sample counter stops here: past the track and one more frame.
SynthCap == TrackLen + MaxPreferredFrameSize

\* The guard of play: true when the tick synthesizes a frame.
Synthesizes == resultFrame # <<>> /\ trackOnDeck /\ audioData # <<>>

InitEngine ==
  /\ BufferNew
  /\ EngineNew
  /\ ControllerDefaults
  /\ inputTrack \in InputTrackSettings
  /\ rate \in RateSettings
  /\ volume \in VolumeSettings
  /\ lastOp = "new"

OnAwake ==
  /\ ~playBound
  /\ audioArrays' = loadTracks(inputTrack)
  /\ IF Len(inputTrack) > 0
     THEN LET t == setTrack(loadTracks(inputTrack), inputTrack[1])
          IN /\ phase' = t.phase
             /\ audioData' = t.audioData
             /\ audioSource' = t.audioSource
             /\ resultFrame' = t.resultFrame
             /\ trackOnDeck' = t.trackOnDeck
             /\ ramp' = TRUE
     ELSE UNCHANGED <<phase, audioData, audioSource, resultFrame, trackOnDeck, ramp>>
  /\ playBound' = TRUE
  /\ lastOp' = "onAwake"
  /\ UNCHANGED <<inputTrack, rate, volume, enqueued, phaseBefore, synth, zeroRun, bufVars,
                 ctlVars>>

SetTrack ==
  \E audioTrack \in TrackAssets :
    LET t == setTrack(audioArrays, audioTrack)
    IN /\ playBound
       /\ phase' = t.phase
       /\ audioData' = t.audioData
       /\ audioSource' = t.audioSource
       /\ resultFrame' = t.resultFrame
       /\ trackOnDeck' = t.trackOnDeck
       /\ ramp' = TRUE
       /\ synth' = 0
       /\ zeroRun' = 0
       /\ lastOp' = "setTrack"
       /\ UNCHANGED <<inputTrack, audioArrays, rate, volume, playBound, enqueued,
                      phaseBefore, bufVars, ctlVars>>

\* The rate slider (or any writer of the public field).
SetRate ==
  \E r \in RateSettings :
    /\ rate' = r
    /\ lastOp' = "set"
    /\ UNCHANGED <<engVars, bufVars, ctlVars>>

SetVolume ==
  \E v \in VolumeSettings :
    /\ volume' = v
    /\ lastOp' = "set"
    /\ UNCHANGED <<inputTrack, audioArrays, audioData, audioSource, resultFrame, phase,
                   rate, trackOnDeck, playBound, enqueued, phaseBefore, ramp, synth,
                   zeroRun, bufVars, ctlVars>>

\* Variant of play() without the guard and the loop: every tick enqueues the
\* frame as it is.
PlayAlwaysEnqueues ==
  \E size \in PreferredFrameSizes :
    /\ playBound
    /\ lastOp' = "play"
    /\ phaseBefore' = phase
    /\ enqueued' = <<size>>
    /\ UNCHANGED <<inputTrack, audioArrays, audioData, audioSource, resultFrame, phase,
                   rate, volume, trackOnDeck, playBound, ramp, synth, zeroRun, bufVars,
                   ctlVars>>

\* The late-update event: play().
Play ==
  \E size \in PreferredFrameSizes :
    /\ playBound
    /\ lastOp' = "play"
    /\ phaseBefore' = phase
    /\ IF ~Synthesizes
       THEN /\ enqueued' = <<>>
            /\ UNCHANGED <<phase, resultFrame, ramp, synth, zeroRun>>
       ELSE LET w == audioData[1]
                st == PlayLoop(w, [phase |-> phase, frame |-> resultFrame[1]],
                               0, size, rate, volume)
                steady == ramp /\ rate = Scale /\ volume = Scale
            IN /\ resultFrame' = <<st.frame>>
               /\ phase' = IF LoopsBack(w, st.phase, rate) THEN 0 ELSE st.phase
               /\ enqueued' = <<size>>
               /\ ramp' = steady
               /\ synth' = IF steady THEN Min(synth + size, SynthCap) ELSE 0
               /\ zeroRun' = IF rate = 0 THEN Min(zeroRun + 1, 2) ELSE 0
    /\ UNCHANGED <<inputTrack, audioArrays, audioData, audioSource, rate, volume,
                   trackOnDeck, playBound, bufVars, ctlVars>>

NextEngine == OnAwake \/ SetTrack \/ SetRate \/ SetVolume \/ Play

SpecEngine == InitEngine /\ [][NextEngine]_vars

(* ========================== AccelerationToRate ========================= *)
\* n / d rounded to the nearest integer, ties to the even one (n >= 0, d > 0).
RoundHalfEven(n, d) ==
  LET q == n \div d
      r == n % d
  IN IF 2 * r < d THEN q
     ELSE IF 2 * r > d THEN q + 1
     ELSE IF q % 2 = 0 THEN q ELSE q + 1

\* The product of two grid values, rounded to the grid.
Mul(a, b) == RoundHalfEven(a * b, Scale)

\* Variant with an inclusive comparison.
BelowOrAtThreshold(m, threshold) == m <= threshold
\* Line 100: the test that keeps the controller at the base rate.
BelowThreshold(m, threshold) == m < threshold

\* Lines 123-130.
calculateTargetRate(m, base, sens) ==
  LET rateMultiplier == Scale + Mul(m, sens)
  IN Mul(base, rateMultiplier)

\* Variant with the two weights exchanged.
applySmoothingSwapped(alpha, current, target) ==
  LET oneMinusAlpha == Scale - alpha
  IN Mul(alpha, target) + Mul(oneMinusAlpha, current)

\* Variant with the sign of alpha's term flipped.
applySmoothingExtrapolates(alpha, current, target) ==
  LET onePlusAlpha == Scale + alpha
  IN Max(0, Mul(onePlusAlpha, target) - Mul(alpha, current))

\* Lines 132-138: the exponential moving average, each product rounded.
applySmoothingToRate(alpha, current, target) ==
  LET oneMinusAlpha == Scale - alpha
  IN Mul(oneMinusAlpha, target) + Mul(alpha, current)

\* Variant without the upper end of the range.
ClampBelowOnly(x, lo, hi) == Max(lo, x)

\* Line 112: Math.max(minRate, Math.min(maxRate, x)).
Clamp(x, lo, hi) == Max(lo, Min(hi, x))

\* Settings explored, each within its slider's range.
BaseRateSettings == {Scale \div 4, Scale, 3 * Scale}
SensitivitySettings == {Scale \div 2, 2 * Scale}
MinRateSettings == {Scale \div 2, Scale}
MaxRateSettings == {Scale, 3 * Scale}
SmoothingSettings == {0, Scale \div 2, (3 * Scale) \div 4}
ThresholdSettings == {0, Scale \div 4, Scale \div 2}
\* Magnitudes the motion source reports: every grid value up to 1/2, then 1 and 2.
Magnitudes == 0..(Scale \div 2) \cup {Scale, 2 * Scale}

InitRate ==
  /\ BufferNew
  /\ EngineNew
  /\ inputTrack = <<>>
  /\ rate = Scale
  /\ volume = Scale
  /\ ControllerNew
  /\ hasCalculator \in BOOLEAN
  /\ hasController \in BOOLEAN
  /\ baseRate \in BaseRateSettings
  /\ useVelocity \in BOOLEAN
  /\ sensitivity \in SensitivitySettings
  /\ minRate \in MinRateSettings
  /\ maxRate \in MaxRateSettings
  /\ smoothing \in SmoothingSettings
  /\ motionThreshold \in ThresholdSettings
  /\ lastOp = "new"

OnAwakeRate ==
  /\ ~rateAwake
  /\ rateAwake' = TRUE
  /\ lastOp' = "onAwakeRate"
  /\ IF hasCalculator /\ hasController
     THEN /\ currentRate' = baseRate
          /\ targetRate' = baseRate
          /\ rate' = baseRate
          /\ updateBound' = TRUE
     ELSE UNCHANGED <<currentRate, targetRate, rate, updateBound>>
  /\ UNCHANGED <<cfgVars, enabled, motionMagnitude, raised, engVars, bufVars>>

\* Variant of updateRate() that also rewinds the engine.
UpdateRateRewinds ==
  \E velocityMagnitude \in Magnitudes, accelerationMagnitude \in Magnitudes :
    LET m == IF useVelocity THEN velocityMagnitude ELSE accelerationMagnitude
        target == IF m < motionThreshold THEN baseRate
                  ELSE Mul(baseRate, Scale + Mul(m, sensitivity))
        smoothed == Mul(Scale - smoothing, target) + Mul(smoothing, currentRate)
        clamped == Max(minRate, Min(maxRate, smoothed))
    IN /\ updateBound
       /\ enabled
       /\ motionMagnitude' = m
       /\ targetRate' = target
       /\ currentRate' = clamped
       /\ rate' = clamped
       /\ phase' = 0
       /\ raised' = FALSE
       /\ lastOp' = "updateRate"
       /\ UNCHANGED <<cfgVars, rateAwake, updateBound, enabled, bufVars, inputTrack,
                      audioArrays, audioData, audioSource, resultFrame, volume,
                      trackOnDeck, playBound, enqueued, phaseBefore, ramp, synth, zeroRun>>

\* The update event: updateRate().  The host delivers events only to an enabled
\* component.
UpdateRate ==
  \E velocityMagnitude \in Magnitudes, accelerationMagnitude \in Magnitudes :
    LET m == IF useVelocity THEN velocityMagnitude ELSE accelerationMagnitude
        target == IF BelowThreshold(m, motionThreshold) THEN baseRate
                  ELSE calculateTargetRate(m, baseRate, sensitivity)
        smoothed == applySmoothingToRate(smoothing, currentRate, target)
        clamped == Clamp(smoothed, minRate, maxRate)
    IN /\ updateBound
       /\ enabled
       /\ motionMagnitude' = m
       /\ targetRate' = target
       /\ currentRate' = clamped
       /\ rate' = clamped
       /\ raised' = FALSE
       /\ lastOp' = "updateRate"
       /\ UNCHANGED <<cfgVars, rateAwake, updateBound, enabled, engVars, bufVars>>

\* The fields resetRate() leaves: the write to the missing audioController throws
\* after the two rates were assigned.
ResetRate ==
  /\ rateAwake
  /\ currentRate' = baseRate
  /\ targetRate' = baseRate
  /\ rate' = IF hasController THEN baseRate ELSE rate
  /\ raised' = ~hasController
  /\ lastOp' = "resetRate"
  /\ UNCHANGED <<cfgVars, rateAwake, updateBound, enabled, motionMagnitude, engVars, bufVars>>

SetEnabled ==
  \E flag \in BOOLEAN :
    /\ rateAwake
    /\ lastOp' = "setEnabled"
    /\ IF ~flag
       THEN /\ currentRate' = baseRate
            /\ targetRate' = baseRate
            /\ rate' = IF hasController THEN baseRate ELSE rate
            /\ raised' = ~hasController
            /\ enabled' = IF hasController THEN flag ELSE enabled
       ELSE /\ enabled' = flag
            /\ raised' = FALSE
            /\ UNCHANGED <<currentRate, targetRate, rate>>
    /\ UNCHANGED <<cfgVars, rateAwake, updateBound, motionMagnitude, engVars, bufVars>>

NextRate == OnAwakeRate \/ UpdateRate \/ ResetRate \/ SetEnabled

SpecRate == InitRate /\ [][NextRate]_vars

(* ======= the session: AudioController driven by AccelerationToRate ====== *)
\* Both components as constructed, the controller wired to its motion source
\* and to the AudioController: two tracks configured (three samples, then the
\* increasing sequence), no smoothing, the other inputs at or near their
\* defaults.
InitSession ==
  /\ BufferNew
  /\ EngineNew
  /\ ControllerNew
  /\ inputTrack = <<"B", "A">>
  /\ rate = Scale
  /\ volume = Scale
  /\ hasCalculator = TRUE
  /\ hasController = TRUE
  /\ baseRate = Scale
  /\ useVelocity = TRUE
  /\ sensitivity = 2 * Scale
  /\ minRate = Scale \div 2
  /\ maxRate = 3 * Scale
  /\ smoothing = 0
  /\ motionThreshold = Scale \div 4
  /\ lastOp = "new"

\* The host runs the two onAwake once each, then delivers update events
\* (updateRate) and late-update events (play) in any interleaving, while the
\* rate slider may be moved at any time.
NextSession == OnAwake \/ OnAwakeRate \/ UpdateRate \/ Play \/ SetRate

SpecSession == InitSession /\ [][NextSession]_vars

\* The late-update event fires on every rendered frame: an audio tick that is
\* due is eventually delivered.
SpecSessionFair == SpecSession /\ WF_vars(Play)

(* =================== claims about FloatArrayWrapper ==================== *)
Probes == 0..(MaxCount + ProbeBeyond)

\* The samples read back are the samples pushed, in order.
ReadsBack(w, stream) ==
  /\ getSize(w) = Len(stream)
  /\ \A i \in 0..(Len(stream) - 1) : getElement(w, i) = stream[i + 1]

\* C1: on a fresh buffer that was only pushed to (no shift, no clear), whatever
\* the number of push calls and the split of the samples among them, getSize()
\* is the number N of samples pushed and getElement(i) is the sample pushed at
\* position i, for every i in [0, N).
C1_PushReadsBack ==
  (~shifted /\ ~cleared) => ReadsBack(wrapper, pushed)

\* N is one above two chunk lengths, which takes at least two push calls, and
\* the last sample (alone in the third chunk) is not silence.
C1_Witness ==
  /\ ~shifted /\ ~cleared
  /\ Len(pushed) = 2 * innerArraySize + 1
  /\ pushed[Len(pushed)] # 0
  /\ pushed[innerArraySize] # 0

\* C2: after pushes totalling N samples, getElement(i) is 0 for every i >= N:
\* in the unused tail of the last chunk and where no chunk was ever allocated.
C2_SilenceBeyondEnd ==
  (~shifted /\ ~cleared) =>
     \A i \in Probes : i >= Len(pushed) => getElement(wrapper, i) = 0

\* The last chunk has an unused tail and the last sample written is not silence.
C2_Witness ==
  /\ ~shifted /\ ~cleared
  /\ Len(pushed) > innerArraySize
  /\ Len(pushed) % innerArraySize # 0
  /\ pushed[Len(pushed)] # 0

\* C3: right after clear() the size is 0, no chunk is allocated and every index
\* reads 0; and a buffer pushed to after clear() reads back what was pushed
\* since, holds exactly the chunks those samples need and is silent beyond
\* them, as a fresh buffer does.
C3_ClearResets ==
  /\ lastOp = "clear" =>
       /\ getSize(wrapper) = 0
       /\ wrapper.dataList = <<>>
       /\ wrapper = NewWrapper
       /\ \A i \in Probes : getElement(wrapper, i) = 0
  /\ (cleared /\ ~shifted) =>
       /\ ReadsBack(wrapper, pushed)
       /\ Len(wrapper.dataList) = Ceil(Len(pushed), innerArraySize)
       /\ \A i \in Probes : i >= Len(pushed) => getElement(wrapper, i) = 0

\* A buffer that was cleared and then pushed to past a chunk boundary.
C3_Witness ==
  /\ cleared /\ ~shifted
  /\ lastOp = "push"
  /\ Len(pushed) > innerArraySize
  /\ pushed[Len(pushed)] # 0

\* C4: in every state reachable by push, shift and clear, getSizeInBytes() is
\* 4 * getSize() when a chunk exists, and 0 when the buffer holds no chunk or
\* no sample.
C4_SizeInBytes ==
  /\ wrapper.dataList # <<>> => getSizeInBytes(wrapper) = 4 * getSize(wrapper)
  /\ wrapper.dataList = <<>> => getSizeInBytes(wrapper) = 0
  /\ getSize(wrapper) = 0 => getSizeInBytes(wrapper) = 0

\* A chunk was shifted out and chunks remain: the size still counts every sample.
C4_Witness ==
  /\ shifted
  /\ ret # <<>>
  /\ wrapper.dataList # <<>>
  /\ getSizeInBytes(wrapper) = 4 * Len(pushed)
  /\ Len(pushed) > innerArraySize

ChunkIds(w) == {w.dataList[k].id : k \in DOMAIN w.dataList}

\* C5: shift() removes and returns the chunk allocated earliest among those the
\* buffer holds, keeps the others in order and leaves getSize() unchanged; on a
\* buffer with no chunk it returns undefined and changes nothing.
C5_ShiftIsFifo ==
  [][lastOp' = "shift" =>
       /\ getSize(wrapper') = getSize(wrapper)
       /\ IF wrapper.dataList = <<>>
          THEN ret' = <<>> /\ wrapper' = wrapper
          ELSE /\ Len(ret') = 1
               /\ \E k \in DOMAIN wrapper.dataList : ret'[1] = wrapper.dataList[k]
               /\ \A id \in ChunkIds(wrapper) : ret'[1].id <= id
               /\ wrapper'.dataList =
                    SelectSeq(wrapper.dataList, LAMBDA c : c.id # ret'[1].id)
    ]_vars

\* The second chunk allocated was just shifted out, after the first, while a
\* later chunk remains.
C5_Witness ==
  /\ lastOp = "shift"
  /\ ret # <<>>
  /\ ret[1].id = 1
  /\ wrapper.dataList # <<>>
  /\ \A id \in ChunkIds(wrapper) : id > 1

(* ===================== claims about AudioController ==================== *)
\* The last step was an audio tick that synthesized and enqueued a frame.
Synthesized == lastOp = "play" /\ enqueued # <<>>

\* The samples the last audio tick wrote: resultFrame[1][1 .. enqueued[1]].
Written == 1..enqueued[1]

\* Rate 1 and volume 1 on every audio tick since setTrack, the buffer on deck
\* holding the increasing sequence, and the last frame beginning within the
\* first TrackLen samples: its i-th sample is output sample number
\* synth - enqueued[1] + i, counted from 1.
RampFrame ==
  /\ Synthesized
  /\ ramp
  /\ ReadsBack(audioData[1], getFloatArrayWithIncreasingSequence(TrackLen))
  /\ synth - enqueued[1] < TrackLen

SampleNumber(i) == synth - enqueued[1] + i

\* C6 as stated: over the first TrackLen samples, output sample k is k.
C6_AsStated ==
  RampFrame =>
    \A i \in Written :
      SampleNumber(i) <= TrackLen => resultFrame[1][i] = SampleNumber(i) * Scale

\* C6: with rate 1, volume 1 and the increasing sequence of TrackLen samples
\* on deck, each of the first TrackLen output samples is the buffer value at
\* round(phase) after that sample's increment, the phase then being the
\* sample's number k counted from 1: sample k is k for k < TrackLen, and sample
\* TrackLen reads index TrackLen, one past the end, which is silence.
C6_RampOutput ==
  RampFrame =>
    \A i \in Written :
      LET k == SampleNumber(i)
      IN k <= TrackLen =>
           /\ phaseBefore + i * rate = k * Scale
           /\ resultFrame[1][i] =
                getElement(audioData[1], MathRound(phaseBefore + i * rate)) * volume
           /\ resultFrame[1][i] = (IF k < TrackLen THEN k ELSE 0) * Scale

\* A full frame whose last sample is output sample TrackLen.
C6_Witness ==
  /\ RampFrame
  /\ enqueued = <<MaxPreferredFrameSize>>
  /\ synth = TrackLen
  /\ resultFrame[1][MaxPreferredFrameSize - 1] = (TrackLen - 1) * Scale

\* C7 as stated: every frame synthesized at rate 0 repeats getElement(0) * volume
\* and ends with phase 0, whatever the phase was.
C7_AsStated ==
  (Synthesized /\ rate = 0) =>
    /\ phase = 0
    /\ \A i \in Written : resultFrame[1][i] = getElement(audioData[1], 0) * volume

\* C7: a frame synthesized at rate 0 repeats the sample under the phase the
\* frame began with, times volume, and ends with phase 0; from the second
\* consecutive rate-0 frame on, that sample is getElement(0).
C7_ZeroRate ==
  (Synthesized /\ rate = 0) =>
    /\ zeroRun >= 1
    /\ phase = 0
    /\ \A i \in Written :
         resultFrame[1][i] = getElement(audioData[1], MathRound(phaseBefore)) * volume
    /\ zeroRun = 2 =>
         /\ phaseBefore = 0
         /\ \A i \in Written : resultFrame[1][i] = getElement(audioData[1], 0) * volume

\* The second rate-0 frame in a row, on a buffer whose first sample is audible.
C7_Witness ==
  /\ Synthesized /\ rate = 0
  /\ zeroRun = 2
  /\ enqueued = <<MaxPreferredFrameSize>>
  /\ getElement(audioData[1], 0) # 0
  /\ resultFrame[1][MaxPreferredFrameSize] = getElement(audioData[1], 0) * volume

(* =================== claims about AccelerationToRate =================== *)
\* The last step was an update tick.
Ticked == lastOp = "updateRate"

\* C8: on every update tick targetRate is baseRate exactly when the magnitude
\* read is below motionThreshold (Idle), and otherwise
\* baseRate * (1 + magnitude * sensitivity) (Active): a magnitude equal to the
\* threshold is Active, whatever the controller's state before the tick.
C8_ThresholdDecides ==
  Ticked =>
    IF motionMagnitude < motionThreshold
    THEN targetRate = baseRate
    ELSE targetRate =
           RoundHalfEven(baseRate * (Scale + RoundHalfEven(motionMagnitude * sensitivity, Scale)),
                         Scale)

\* A tick whose magnitude equals a positive threshold: the target left the base rate.
C8_Witness ==
  /\ Ticked
  /\ motionThreshold > 0
  /\ motionMagnitude = motionThreshold
  /\ targetRate > baseRate

\* C9 as stated: with smoothing 0, currentRate equals targetRate after one tick,
\* for every baseRate, sensitivity, minRate and maxRate.
C9_AsStated ==
  (Ticked /\ smoothing = 0) => currentRate = targetRate

\* C9: with smoothing 0, after one update tick currentRate (and the rate written
\* to the engine) is targetRate clamped to [minRate, maxRate], whatever
\* currentRate was before: it equals targetRate when targetRate lies within
\* [minRate, maxRate], and the nearer end of the range otherwise.
C9_InstantUpToClamp ==
  (Ticked /\ smoothing = 0) =>
    /\ currentRate = Max(minRate, Min(maxRate, targetRate))
    /\ rate = currentRate
    /\ (minRate <= targetRate /\ targetRate <= maxRate) => currentRate = targetRate

\* An Active tick with smoothing 0 whose target lies inside the range.
C9_Witness ==
  /\ Ticked
  /\ smoothing = 0
  /\ targetRate # baseRate
  /\ minRate < targetRate /\ targetRate < maxRate
  /\ currentRate = targetRate

\* smoothing lies in the open interval (0, 0.95).
SmoothingOpen == smoothing > 0 /\ 20 * smoothing < 19 * Scale

Dist(a, b) == IF a >= b THEN a - b ELSE b - a

\* C10 as stated: with smoothing in (0, 0.95) and targetRate unchanged by the
\* tick, the new currentRate is no farther from targetRate than the old one,
\* on the same side of it, and not equal to it unless the old one was.
C10_AsStated ==
  [][(lastOp' = "updateRate" /\ SmoothingOpen /\ targetRate' = targetRate) =>
       /\ Dist(currentRate', targetRate) <= Dist(currentRate, targetRate)
       /\ (currentRate' - targetRate) * (currentRate - targetRate) >= 0
       /\ (currentRate # targetRate => currentRate' # targetRate)
    ]_vars

\* C10: with smoothing in (0, 0.95) and a targetRate within [minRate, maxRate]
\* that the tick leaves unchanged, the new currentRate lies between the old
\* currentRate and targetRate, up to the rounding of the two products (one grid
\* unit): it neither overshoots targetRate nor moves away from it by more than
\* that, the clamp step included.
C10_ApproachesWithinRounding ==
  [][(/\ lastOp' = "updateRate"
      /\ SmoothingOpen
      /\ targetRate' = targetRate
      /\ minRate <= targetRate /\ targetRate <= maxRate) =>
       /\ currentRate' >= Min(currentRate, targetRate) - 1
       /\ currentRate' <= Max(currentRate, targetRate) + 1
    ]_vars

\* Mid-approach: a smoothed tick left currentRate strictly between the base
\* rate it started from and a target inside the range.
C10_Witness ==
  /\ Ticked
  /\ SmoothingOpen
  /\ targetRate <= maxRate
  /\ baseRate < currentRate
  /\ currentRate + 1 < targetRate

\* C11 as stated: once the controller writes the engine's rate (both of its
\* collaborators are set and onAwake has run), that rate is always within
\* [minRate, maxRate].
C11_AsStated ==
  updateBound => (minRate <= rate /\ rate <= maxRate)

\* C11: the value an update tick writes to the engine's rate is the clamped
\* currentRate, within [minRate, maxRate] for any targetRate and any prior
\* currentRate; the writes of onAwake, resetRate() and setEnabled(false) are
\* baseRate as configured, not clamped.
C11_TickWritesWithinRange ==
  /\ Ticked => (minRate <= rate /\ rate <= maxRate /\ rate = currentRate)
  /\ (updateBound /\ lastOp \in {"onAwakeRate", "resetRate"}) => rate = baseRate
  /\ (updateBound /\ lastOp = "setEnabled" /\ ~enabled) => rate = baseRate

\* A smoothed tick whose target lies above the range: the rate written is maxRate.
C11_Witness ==
  /\ Ticked
  /\ smoothing > 0
  /\ targetRate > maxRate
  /\ rate = maxRate

\* C12 as stated: right after resetRate(), whatever the controller's state,
\* currentRate and targetRate are baseRate and baseRate was written to the
\* engine's rate; right after setEnabled(false), which leaves the component
\* disabled, the three values are the same.
C12_AsStated ==
  (lastOp = "resetRate" \/ (lastOp = "setEnabled" /\ ~enabled)) =>
    /\ currentRate = baseRate
    /\ targetRate = baseRate
    /\ rate = baseRate

\* C14 as stated: after an onAwake that found the motion source or the playback
\* target missing, the update callback is never bound, no update tick runs and
\* no operation of the controller ends in an error.
C14_AsStated ==
  (rateAwake /\ ~(hasCalculator /\ hasController)) =>
    /\ ~updateBound
    /\ lastOp # "updateRate"
    /\ ~raised

\* C13: an audio tick that finds no result frame, no track on deck or no buffer
\* bound (setTrack having run with no track loaded) returns at the guard: it
\* dereferences nothing, leaves phase as it was and enqueues no frame.
C13_SkipsWithoutDeck ==
  (lastOp = "play" /\ (resultFrame = <<>> \/ ~trackOnDeck \/ audioData = <<>>)) =>
    /\ enqueued = <<>>
    /\ phase = phaseBefore

\* The tick after setTrack on an engine that loaded no track: a result frame
\* exists and a track is on deck, but no buffer is bound.
C13_Witness ==
  /\ lastOp = "play"
  /\ audioArrays = <<>>
  /\ trackOnDeck
  /\ resultFrame # <<>>
  /\ audioData = <<>>
  /\ enqueued = <<>>

(* ================ further claims about FloatArrayWrapper =============== *)
\* C15: push leaves every already-written sample unchanged: for every index i
\* below the size before the call, getElement(i) is after the call what it was
\* before, whether or not the push crosses chunk boundaries (and also on a
\* buffer that was shifted).
C15_PushKeepsWritten ==
  lastOp = "push" =>
    \A i \in 0..(getSize(before) - 1) : getElement(wrapper, i) = getElement(before, i)

\* A push that began inside a chunk whose last written sample is audible,
\* filled it and went on into two further chunks.
C15_Witness ==
  /\ lastOp = "push"
  /\ ~shifted
  /\ getSize(before) % innerArraySize # 0
  /\ getElement(before, getSize(before) - 1) # 0
  /\ Len(wrapper.dataList) = Len(before.dataList) + 2
  /\ getElement(wrapper, getSize(before)) # 0

\* The unused capacity of the last chunk of a buffer of s samples: 0 when s is
\* an exact multiple of the chunk length.
TailCapacity(s) == (innerArraySize - (s % innerArraySize)) % innerArraySize

\* C16: in every state reached by push and clear alone the number of chunks is
\* ceil(getSize() / chunkSize); a push of count samples from size s allocated
\* ceil((count - tail) / chunkSize) chunks, tail being the unused capacity of
\* the last chunk (0 when s is an exact multiple of chunkSize, s = 0 included),
\* and none when count <= tail.
C16_ChunksAreCeil ==
  ~shifted =>
    /\ Len(wrapper.dataList) = Ceil(getSize(wrapper), innerArraySize)
    /\ lastOp = "push" =>
         LET s == getSize(before)
             count == getSize(wrapper) - s
             tail == TailCapacity(s)
             allocated == Len(wrapper.dataList) - Len(before.dataList)
         IN /\ allocated = Max(0, Ceil(count - tail, innerArraySize))
            /\ allocated = wrapper.allocs - before.allocs
            /\ count <= tail => allocated = 0
            /\ \A k \in DOMAIN before.dataList :
                 wrapper.dataList[k].id = before.dataList[k].id

\* A push from a non-empty buffer whose size is an exact multiple of the chunk
\* length, long enough to need two new chunks.
C16_Witness ==
  /\ lastOp = "push"
  /\ ~shifted
  /\ getSize(before) > 0
  /\ getSize(before) % innerArraySize = 0
  /\ Len(wrapper.dataList) = Len(before.dataList) + 2
  /\ getSize(wrapper) > getSize(before) + innerArraySize

\* C20 as stated: in every state reached by push, shift and clear, the size is
\* the number of samples pushed (since construction or the last clear), every
\* index below it reads the sample pushed at that logical position, and the
\* samples of the last push are read back at the positions it appended them to.
C20_AsStated ==
  /\ ReadsBack(wrapper, pushed)
  /\ lastOp = "push" =>
       \A i \in getSize(before)..(getSize(wrapper) - 1) :
         i + 1 \in DOMAIN pushed /\ getElement(wrapper, i) = pushed[i + 1]

(* ================== further claims about AudioController =============== *)
\* The phase a synthesized frame of enqueued[1] samples ends its loop with.
FinalPhase == phaseBefore + enqueued[1] * rate

\* C17: the loop check runs once per audio frame, after the inner loop and on
\* the final phase: the frame ends with phase 0 exactly when the final phase is
\* >= getSize() or rate = 0, and with the final phase otherwise; inside the
\* frame the phase is never reset, so sample i is read under the unwrapped phase
\* phaseBefore + i * rate and is silence once that has passed the end of the
\* buffer; the wraparound shows from the next frame.
C17_LoopCheckOncePerFrame ==
  Synthesized =>
    /\ phase = IF FinalPhase >= getSize(audioData[1]) * Scale \/ rate = 0
               THEN 0 ELSE FinalPhase
    /\ \A i \in Written :
         LET index == MathRound(phaseBefore + i * rate)
         IN /\ resultFrame[1][i] = getElement(audioData[1], index) * volume
            /\ index >= getSize(audioData[1]) => resultFrame[1][i] = 0

\* A frame that passed the end of the buffer between its first and its second
\* sample: the first is audible, the second is silence, the phase is back at 0.
C17_Witness ==
  /\ Synthesized
  /\ rate # 0
  /\ enqueued[1] >= 2
  /\ MathRound(phaseBefore + rate) < getSize(audioData[1])
  /\ MathRound(phaseBefore + 2 * rate) >= getSize(audioData[1])
  /\ resultFrame[1][1] # 0
  /\ resultFrame[1][2] = 0
  /\ phase = 0

\* C18: setTrack(t), for any track asset t and in any engine state, sets phase
\* to 0, marks the track active and binds the buffer of the first loaded track
\* (the samples of inputTrack[0], whichever asset t is; nothing when no track
\* was loaded), and leaves rate and volume unchanged.
C18_SetTrackBindsFirst ==
  [][lastOp' = "setTrack" =>
       /\ phase' = 0
       /\ trackOnDeck'
       /\ audioArrays' = audioArrays
       /\ IF audioArrays = <<>>
          THEN audioData' = <<>>
          ELSE /\ audioData' = <<audioArrays[1]>>
               /\ ReadsBack(audioData'[1], TrackSamples(inputTrack[1]))
       /\ rate' = rate
       /\ volume' = volume
    ]_vars

\* setTrack called with the second track's asset after a frame was synthesized
\* from a phase above 0, at a rate other than the default: the first track's
\* buffer is bound.
C18_Witness ==
  /\ lastOp = "setTrack"
  /\ inputTrack = <<"B", "A">>
  /\ audioSource = <<"A">>
  /\ ReadsBack(audioData[1], TrackSamples("B"))
  /\ enqueued # <<>>
  /\ phaseBefore > 0
  /\ phase = 0
  /\ rate # Scale

\* C19 as stated: an audio tick with frame size 0 on an active track leaves
\* phase, rate, volume and the buffer unchanged, whatever rate and phase are.
C19_AsStated ==
  [][(lastOp' = "play" /\ Synthesizes /\ enqueued' = <<0>>) =>
       /\ phase' = phase
       /\ rate' = rate
       /\ volume' = volume
       /\ audioData' = audioData
    ]_vars

\* C19: an audio tick with frame size 0 on an active track runs no iteration
\* of the loop and leaves rate, volume, the buffer and the result frame
\* unchanged; the loop check still runs, so phase keeps its value when rate is
\* not 0 and is reset to 0 when rate = 0.
C19_ZeroSizeTick ==
  [][(lastOp' = "play" /\ Synthesizes /\ enqueued' = <<0>>) =>
       /\ rate' = rate
       /\ volume' = volume
       /\ audioData' = audioData
       /\ resultFrame' = resultFrame
       /\ phase' = IF rate = 0 \/ phase >= getSize(audioData[1]) * Scale THEN 0 ELSE phase
       /\ rate # 0 => phase' = phase
       /\ rate = 0 => phase' = 0
    ]_vars

\* A tick of frame size 0 in mid-track at a rate other than 0: the phase stays.
C19_Witness ==
  /\ lastOp = "play"
  /\ enqueued = <<0>>
  /\ rate # 0
  /\ phaseBefore > 0
  /\ phase = phaseBefore

(* ======================= claims about the session ====================== *)
\* C21: under every interleaving of update ticks and audio ticks, an update
\* tick changes, of the engine, only its rate (phase, volume, the active flag,
\* the result frame and the buffers are as before); an audio tick changes only
\* phase and the result frame (rate, volume, the active flag, the controller's
\* rates and the buffers, size and contents, are as before); and once loaded,
\* the buffers are never changed again by any step.
C21_TicksTouchOnlyTheirOwn ==
  [][/\ lastOp' = "updateRate" =>
          /\ phase' = phase
          /\ volume' = volume
          /\ trackOnDeck' = trackOnDeck
          /\ resultFrame' = resultFrame
          /\ audioData' = audioData
          /\ audioArrays' = audioArrays
     /\ lastOp' = "play" =>
          /\ rate' = rate
          /\ volume' = volume
          /\ trackOnDeck' = trackOnDeck
          /\ currentRate' = currentRate
          /\ targetRate' = targetRate
          /\ audioData' = audioData
          /\ audioArrays' = audioArrays
     /\ playBound =>
          /\ audioArrays' = audioArrays
          /\ audioData' = audioData
    ]_vars

\* An update tick right after an audio tick that left the phase in mid-track:
\* the controller has raised the rate, the phase and the frame size stand.
C21_Witness ==
  /\ lastOp = "updateRate"
  /\ enqueued # <<>>
  /\ phase > 0
  /\ phase = phaseBefore + enqueued[1] * baseRate
  /\ targetRate > baseRate
  /\ rate = currentRate
  /\ rate > baseRate

\* C22: whenever a track is active on a non-empty buffer -- in particular when
\* play() has returned -- phase is at least 0 and below getSize(), whatever
\* rates the slider and the rate controller wrote between frames and whatever
\* the frame sizes were.
C22_PhaseWithinBuffer ==
  (Synthesizes /\ getSize(audioData[1]) > 0) =>
    /\ 0 <= phase
    /\ phase < getSize(audioData[1]) * Scale

\* A frame that ended inside the last sample of the buffer, at a fractional
\* phase, with the controller bound.
C22_Witness ==
  /\ Synthesized
  /\ updateBound
  /\ enqueued[1] >= 1
  /\ phase > (getSize(audioData[1]) - 1) * Scale
  /\ phase % Scale # 0

\* An audio tick that synthesizes at least one sample.
PlaysSamples == lastOp' = "play" /\ enqueued' # <<>> /\ enqueued'[1] >= 1

\* The last audio tick synthesized samples, its final phase had reached the end
\* of the buffer and the phase was reset to 0.
Looped ==
  /\ Synthesized
  /\ enqueued[1] >= 1
  /\ FinalPhase >= getSize(audioData[1]) * Scale
  /\ phase = 0

\* C23: playback loops forever: if audio ticks that synthesize at least one
\* sample keep occurring and the rate is always above 0, then again and again a
\* frame ends with the phase reset to 0, under any interleaving with update
\* ticks and moves of the rate slider.
C23_LoopsForever ==
  ([]<><<PlaysSamples>>_vars /\ [](rate > 0)) => []<>Looped

\* A frame that began in mid-track at a rate the controller had raised and
\* ended with the phase reset.
C23_Witness ==
  /\ Looped
  /\ phaseBefore > 0
  /\ rate = currentRate
  /\ rate > baseRate

====
